---- MODULE Spec2Model ----
(***************************************************************************)
(* Credit card statement parser: bank detection, per-issuer field          *)
(* extraction, transaction recovery, normalizers and the per-document      *)
(* orchestrator (main.py, parsers/*.py).                                    *)
(*                                                                         *)
(* Text is modelled as a sequence of one-character strings, so that        *)
(* lower-casing, substring search, regular-expression search, strptime     *)
(* and float() are computed character by character as the code does.       *)
(***************************************************************************)
EXTENDS Integers, Sequences, FiniteSets, TLC

VARIABLES pc, doc, bank, parser, result, ran, arg, ret

vars == <<pc, doc, bank, parser, result, ran, arg, ret>>

(* Python's None; no text is equal to it, since every element of a text is a single character *)
None == <<"None">>

(***************************************************************************)
(* Characters                                                              *)
(***************************************************************************)
DigitChars == <<"0", "1", "2", "3", "4", "5", "6", "7", "8", "9">>

UpperChars == <<"A", "B", "C", "D", "E", "F", "G", "H", "I", "J", "K", "L", "M",
                "N", "O", "P", "Q", "R", "S", "T", "U", "V", "W", "X", "Y", "Z">>

LowerChars == <<"a", "b", "c", "d", "e", "f", "g", "h", "i", "j", "k", "l", "m",
                "n", "o", "p", "q", "r", "s", "t", "u", "v", "w", "x", "y", "z">>

Range(s) == {s[i] : i \in DOMAIN s}

Digits == Range(DigitChars)

Letters == Range(UpperChars) \cup Range(LowerChars)

(* \s of the re module, for the characters that occur in the modelled texts *)
Whitespace == {" ", "\n", "\t"}

(* \w of the re module: letters, digits and the underscore *)
WordChars == Letters \cup Digits \cup {"_"}

IsDigit(c) == c \in Digits

DigitVal(c) == (CHOOSE i \in 1..10 : DigitChars[i] = c) - 1

(* str.lower() on one character *)
LowerChar(c) ==
    IF c \in Range(UpperChars)
    THEN LowerChars[CHOOSE i \in 1..26 : UpperChars[i] = c]
    ELSE c

(* str.lower() *)
Lower(s) == [i \in 1..Len(s) |-> LowerChar(s[i])]

RECURSIVE Num(_)
(* int() of a sequence of digit characters *)
Num(s) ==
    IF Len(s) = 0 THEN 0
    ELSE 10 * Num(SubSeq(s, 1, Len(s) - 1)) + DigitVal(s[Len(s)])

RECURSIVE ZeroPad(_, _)
(* the decimal digits of n, zero padded on the left to at least w characters *)
ZeroPad(n, w) ==
    IF n < 10 /\ w <= 1 THEN <<DigitChars[n + 1]>>
    ELSE ZeroPad(n \div 10, w - 1) \o <<DigitChars[(n % 10) + 1]>>

RECURSIVE Strip(_)
(* str.strip(): removes leading and trailing whitespace *)
Strip(s) ==
    IF Len(s) = 0 THEN s
    ELSE IF s[1] \in Whitespace THEN Strip(Tail(s))
    ELSE IF s[Len(s)] \in Whitespace THEN Strip(SubSeq(s, 1, Len(s) - 1))
    ELSE s

(* text[pos .. pos+n-1], or <<>> when that runs past the end *)
Slice(s, pos, n) ==
    IF pos + n - 1 <= Len(s) THEN SubSeq(s, pos, pos + n - 1) ELSE <<>>

(* s occurs in text starting at pos *)
OccursAt(s, text, pos) ==
    /\ pos + Len(s) - 1 <= Len(text)
    /\ \A i \in 1..Len(s) : text[pos + i - 1] = s[i]

(* Python's `s in text` *)
Contains(s, text) == \E pos \in 1..(Len(text) + 1) : OccursAt(s, text, pos)

RECURSIVE Concat(_)
(* the concatenation of a sequence of texts *)
Concat(ss) == IF Len(ss) = 0 THEN <<>> ELSE Head(ss) \o Concat(Tail(ss))

(***************************************************************************)
(* datetime.strptime / strftime as used by standardize_date                *)
(***************************************************************************)
MonthNames ==
    << <<"j","a","n","u","a","r","y">>,
       <<"f","e","b","r","u","a","r","y">>,
       <<"m","a","r","c","h">>,
       <<"a","p","r","i","l">>,
       <<"m","a","y">>,
       <<"j","u","n","e">>,
       <<"j","u","l","y">>,
       <<"a","u","g","u","s","t">>,
       <<"s","e","p","t","e","m","b","e","r">>,
       <<"o","c","t","o","b","e","r">>,
       <<"n","o","v","e","m","b","e","r">>,
       <<"d","e","c","e","m","b","e","r">> >>

MonthAbbrs == [m \in 1..12 |-> SubSeq(MonthNames[m], 1, 3)]

IsLeap(y) == (y % 4 = 0) /\ ((y % 100 # 0) \/ (y % 400 = 0))

DaysInMonth(y, m) ==
    IF m = 2 THEN (IF IsLeap(y) THEN 29 ELSE 28)
    ELSE IF m \in {4, 6, 9, 11} THEN 30
    ELSE 31

(* The candidate match lengths of one directive at position pos, in the     *)
(* priority order of the alternatives of its regular expression:           *)
(*   %d  3[0-1]|[1-2]\d|0[1-9]|[1-9]| [1-9]                                *)
(*   %m  1[0-2]|0[1-9]|[1-9]                                               *)
(*   %y  \d\d        %Y  \d\d\d\d                                          *)
(*   %b  jan|...|dec   %B  september|...|may   (case-insensitive)          *)
(*   a blank of the format is \s+ (longest first); any other character     *)
(*   matches itself.                                                       *)
RECURSIVE WsRun(_, _)
WsRun(s, pos) ==
    IF pos <= Len(s) /\ s[pos] \in Whitespace THEN 1 + WsRun(s, pos + 1) ELSE 0

DirectiveLens(item, s, pos) ==
    LET c1 == IF pos <= Len(s) THEN s[pos] ELSE ""
        c2 == IF pos + 1 <= Len(s) THEN s[pos + 1] ELSE ""
        two(ok) == IF ok THEN <<2>> ELSE <<>>
        one(ok) == IF ok THEN <<1>> ELSE <<>>
    IN  IF item = "%d" THEN
            two(\/ (c1 = "3" /\ c2 \in {"0", "1"})
                \/ (c1 \in {"1", "2"} /\ IsDigit(c2))
                \/ (c1 = "0" /\ IsDigit(c2) /\ c2 # "0"))
            \o one(IsDigit(c1) /\ c1 # "0")
            \o two(c1 = " " /\ IsDigit(c2) /\ c2 # "0")
        ELSE IF item = "%m" THEN
            two(\/ (c1 = "1" /\ c2 \in {"0", "1", "2"})
                \/ (c1 = "0" /\ IsDigit(c2) /\ c2 # "0"))
            \o one(IsDigit(c1) /\ c1 # "0")
        ELSE IF item = "%y" THEN
            two(IsDigit(c1) /\ IsDigit(c2))
        ELSE IF item = "%Y" THEN
            IF Len(Slice(s, pos, 4)) = 4 /\ \A i \in 0..3 : IsDigit(s[pos + i])
            THEN <<4>> ELSE <<>>
        ELSE IF item = "%b" THEN
            IF \E m \in 1..12 : OccursAt(MonthAbbrs[m], Lower(s), pos)
            THEN <<3>> ELSE <<>>
        ELSE IF item = "%B" THEN
            IF \E m \in 1..12 : OccursAt(MonthNames[m], Lower(s), pos)
            THEN <<Len(MonthNames[CHOOSE m \in 1..12 :
                                      OccursAt(MonthNames[m], Lower(s), pos)])>>
            ELSE <<>>
        ELSE IF item = " " THEN
            [i \in 1..WsRun(s, pos) |-> WsRun(s, pos) + 1 - i]
        ELSE one(c1 = item)

RECURSIVE FmtMatch(_, _, _, _)
RECURSIVE FmtTry(_, _, _, _, _)
(* re.match of the format's regular expression: the boundaries             *)
(* <<start of item k, ..., end of the last item>> of the first match in     *)
(* backtracking order, or <<>> when there is none                          *)
FmtMatch(fmt, k, s, pos) ==
    IF k > Len(fmt) THEN <<pos>>
    ELSE FmtTry(fmt, k, s, pos, DirectiveLens(fmt[k], s, pos))

FmtTry(fmt, k, s, pos, lens) ==
    IF Len(lens) = 0 THEN <<>>
    ELSE LET r == FmtMatch(fmt, k + 1, s, pos + Head(lens))
         IN  IF Len(r) > 0 THEN <<pos>> \o r
             ELSE FmtTry(fmt, k, s, pos, Tail(lens))

(* the field of the match that directive d converted *)
FmtField(fmt, b, s, d) ==
    LET k == CHOOSE i \in 1..Len(fmt) : fmt[i] = d
    IN  SubSeq(s, b[k], b[k + 1] - 1)

MonthOf(name, table) == CHOOSE m \in 1..12 : table[m] = Lower(name)

(* datetime.strptime(s, fmt): <<year, month, day>>, or <<>> for ValueError *)
Strptime(s, fmt) ==
    LET b == FmtMatch(fmt, 1, s, 1)
    IN  IF Len(b) = 0 THEN <<>>
        ELSE IF b[Len(b)] # Len(s) + 1 THEN <<>>     \* unconverted data remains
        ELSE
          LET has(d) == \E i \in 1..Len(fmt) : fmt[i] = d
              year == IF has("%Y") THEN Num(FmtField(fmt, b, s, "%Y"))
                      ELSE LET yy == Num(FmtField(fmt, b, s, "%y"))
                           IN  IF yy <= 68 THEN 2000 + yy ELSE 1900 + yy
              month == IF has("%m") THEN Num(FmtField(fmt, b, s, "%m"))
                       ELSE IF has("%b") THEN MonthOf(FmtField(fmt, b, s, "%b"), MonthAbbrs)
                       ELSE MonthOf(FmtField(fmt, b, s, "%B"), MonthNames)
              day == Num(Strip(FmtField(fmt, b, s, "%d")))
          IN  IF year < 1 \/ day > DaysInMonth(year, month) THEN <<>>
              ELSE <<year, month, day>>

(* strftime without the zero padding of %m and %d *)
Strftime_Unpadded(dt) == ZeroPad(dt[1], 4) \o <<"-">> \o ZeroPad(dt[2], 1) \o <<"-">> \o ZeroPad(dt[3], 1)

(* parsed_date.strftime('%Y-%m-%d') *)
Strftime(dt) == ZeroPad(dt[1], 4) \o <<"-">> \o ZeroPad(dt[2], 2) \o <<"-">> \o ZeroPad(dt[3], 2)

date_formats ==
    << <<"%d", "/", "%m", "/", "%Y">>, <<"%d", "-", "%m", "-", "%Y">>, <<"%d", ".", "%m", ".", "%Y">>,
       <<"%d", "/", "%m", "/", "%y">>, <<"%d", "-", "%m", "-", "%y">>, <<"%d", ".", "%m", ".", "%y">>,
       <<"%d", " ", "%b", " ", "%Y">>, <<"%d", " ", "%B", " ", "%Y">>,
       <<"%d", "-", "%b", "-", "%Y">>, <<"%d", "-", "%B", "-", "%Y">>,
       <<"%Y", "-", "%m", "-", "%d">> >>

RECURSIVE TryFormats(_, _, _)
(* the for loop of standardize_date over formats k.. *)
TryFormats(date_str, formats, k) ==
    IF k > Len(formats) THEN date_str
    ELSE LET parsed_date == Strptime(Strip(date_str), formats[k])
         IN  IF Len(parsed_date) > 0 THEN Strftime(parsed_date)
             ELSE TryFormats(date_str, formats, k + 1)

(* standardize_date returning the token without trying any format *)
standardize_date_Raw(date_str) ==
    IF date_str = None \/ date_str = <<>> THEN None ELSE date_str

(* BaseCreditCardParser.standardize_date *)
standardize_date(date_str) ==
    IF date_str = None \/ date_str = <<>> THEN None
    ELSE TryFormats(date_str, date_formats, 1)

(***************************************************************************)
(* float() and parse_indian_amount                                         *)
(***************************************************************************)
RECURSIVE RemoveChars(_, _)
(* re.sub('[...]', '', s) and str.replace(c, ''): s without the characters of cs *)
RemoveChars(s, cs) ==
    IF Len(s) = 0 THEN s
    ELSE IF s[1] \in cs THEN RemoveChars(Tail(s), cs)
    ELSE <<s[1]>> \o RemoveChars(Tail(s), cs)

RECURSIVE DropLeadingZeros(_)
DropLeadingZeros(s) ==
    IF Len(s) > 1 /\ s[1] = "0" THEN DropLeadingZeros(Tail(s)) ELSE s

RECURSIVE DropTrailingZeros(_)
DropTrailingZeros(s) ==
    IF Len(s) > 1 /\ s[Len(s)] = "0" THEN DropTrailingZeros(SubSeq(s, 1, Len(s) - 1)) ELSE s

AllDigits(s) == \A i \in 1..Len(s) : IsDigit(s[i])

(* the position of the first "." of s, or 0 *)
DotPos(s) ==
    IF \E i \in 1..Len(s) : s[i] = "."
    THEN CHOOSE i \in 1..Len(s) : s[i] = "." /\ \A j \in 1..(i - 1) : s[j] # "."
    ELSE 0

(* s is digits, digits. , .digits or digits.digits with at least one digit *)
IsDecimal(s) ==
    LET d == DotPos(s)
        ip == IF d = 0 THEN s ELSE SubSeq(s, 1, d - 1)
        fp == IF d = 0 THEN <<>> ELSE SubSeq(s, d + 1, Len(s))
    IN  AllDigits(ip) /\ AllDigits(fp) /\ Len(ip) + Len(fp) > 0

(* the float denoted by a decimal, written as repr() writes it: no leading *)
(* zeros, a point, no trailing zeros ("1234.50" is 1234.5, "7" is 7.0)     *)
DecimalValue(s) ==
    LET d == DotPos(s)
        ip == IF d = 0 THEN s ELSE SubSeq(s, 1, d - 1)
        fp == IF d = 0 THEN <<>> ELSE SubSeq(s, d + 1, Len(s))
    IN  DropLeadingZeros(IF Len(ip) = 0 THEN <<"0">> ELSE ip)
        \o <<".">> \o DropTrailingZeros(IF Len(fp) = 0 THEN <<"0">> ELSE fp)

NaN == <<"n", "a", "n">>

Inf == <<"i", "n", "f">>

(* float(s) for the literals built from digits, a point, a sign and the    *)
(* words inf, infinity and nan (exponents and digit-group underscores do   *)
(* not occur in the modelled tokens); None stands for ValueError           *)
Float(s) ==
    LET signed == Len(s) > 0 /\ s[1] \in {"+", "-"}
        body == IF signed THEN Tail(s) ELSE s
        sign == IF signed /\ s[1] = "-" THEN <<"-">> ELSE <<>>
    IN  IF Lower(body) = NaN THEN NaN
        ELSE IF Lower(body) \in {Inf, Inf \o <<"i", "n", "i", "t", "y">>} THEN sign \o Inf
        ELSE IF IsDecimal(body) THEN sign \o DecimalValue(body)
        ELSE None

(* BaseCreditCardParser.parse_indian_amount *)
parse_indian_amount(amount_str) ==
    IF amount_str = None \/ amount_str = <<>> THEN None
    ELSE LET cleaned == RemoveChars(amount_str, {"₹", "$", ","} \cup Whitespace)
             negated == IF "(" \in Range(cleaned) /\ ")" \in Range(cleaned)
                        THEN <<"-">> \o RemoveChars(RemoveChars(cleaned, {"("}), {")"})
                        ELSE cleaned
         IN  Float(negated)

(***************************************************************************)
(* re.search for the patterns of the parsers.  A pattern is a sequence of  *)
(* parts; a part is a group with alternatives (tried in order), each a     *)
(* sequence of atoms; an atom is a literal word, or a character class      *)
(* repeated min..max times (greedy, max = -1 for unbounded).  Words and    *)
(* classes hold lower-case letters and the text is lower-cased before      *)
(* matching (re.IGNORECASE; the patterns used without that flag contain no *)
(* letters); groups are cut from the text as given.                        *)
(***************************************************************************)
Rep(cls, min, max) == << [lit |-> <<>>, cls |-> cls, min |-> min, max |-> max] >>

Lit(s) == << [lit |-> s, cls |-> {}, min |-> 1, max |-> 1] >>

(* a non-capturing stretch, a group of alternatives, a capturing group *)
P(atoms) == [alts |-> <<atoms>>, cap |-> FALSE]

G(alts) == [alts |-> alts, cap |-> FALSE]

C(atoms) == [alts |-> <<atoms>>, cap |-> TRUE]

RECURSIVE Run(_, _, _, _)
(* how many characters from pos on are in cls, at most max of them *)
Run(cls, text, pos, max) ==
    IF max # 0 /\ pos <= Len(text) /\ text[pos] \in cls
    THEN 1 + Run(cls, text, pos + 1, max - 1)
    ELSE 0

RECURSIVE ReAlts(_, _, _, _, _)
RECURSIVE ReAtoms(_, _, _, _, _, _)
RECURSIVE ReCount(_, _, _, _, _, _, _)
(* the match of parts pi.. at pos, trying the alternatives ai.. of part pi: *)
(* <<start of part pi, ..., start of the last part, end of the match>>, or  *)
(* <<>> when the backtracking search finds none                            *)
ReAlts(parts, text, pi, ai, pos) ==
    IF pi > Len(parts) THEN <<pos>>
    ELSE IF ai > Len(parts[pi].alts) THEN <<>>
    ELSE LET r == ReAtoms(parts, text, pi, ai, 1, pos)
         IN  IF Len(r) > 0 THEN <<pos>> \o r
             ELSE ReAlts(parts, text, pi, ai + 1, pos)

ReAtoms(parts, text, pi, ai, k, pos) ==
    LET atoms == parts[pi].alts[ai]
    IN  IF k > Len(atoms) THEN ReAlts(parts, text, pi + 1, 1, pos)
        ELSE IF Len(atoms[k].lit) > 0 THEN
            IF OccursAt(atoms[k].lit, text, pos)
            THEN ReAtoms(parts, text, pi, ai, k + 1, pos + Len(atoms[k].lit))
            ELSE <<>>
        ELSE ReCount(parts, text, pi, ai, k, pos,
                     Run(atoms[k].cls, text, pos, atoms[k].max))

ReCount(parts, text, pi, ai, k, pos, n) ==
    IF n < parts[pi].alts[ai][k].min THEN <<>>
    ELSE LET r == ReAtoms(parts, text, pi, ai, k + 1, pos + n)
         IN  IF Len(r) > 0 THEN r
             ELSE ReCount(parts, text, pi, ai, k, pos, n - 1)

(* re.search(pattern, text): the match at the leftmost position where the *)
(* pattern matches the lower-cased text, <<>> for no match                *)
re_search(parts, text) ==
    LET low == SubSeq(Lower(text), 1, Len(text))
        starts == { s \in 1..(Len(text) + 1) : Len(ReAlts(parts, low, 1, 1, s)) > 0 }
    IN  IF starts = {} THEN <<>>
        ELSE ReAlts(parts, low, 1, 1, CHOOSE s \in starts : \A t \in starts : s <= t)

(* match.group(0) and match.group(g) *)
group0(m, text) == SubSeq(text, m[1], m[Len(m)] - 1)

group(parts, m, text, g) ==
    LET caps == SelectSeq([i \in 1..Len(parts) |-> i], LAMBDA i : parts[i].cap)
    IN  SubSeq(text, m[caps[g]], m[caps[g] + 1] - 1)

(* the pattern whose match starts earliest in the text, instead of the      *)
(* first pattern of the list that matches                                  *)
FirstPattern_EarliestInText(patterns, text, k) ==
    LET hits == { i \in k..Len(patterns) : Len(re_search(patterns[i], text)) > 0 }
        at(i) == re_search(patterns[i], text)[1]
    IN  IF hits = {} THEN 0
        ELSE CHOOSE i \in hits : \A j \in hits : at(i) < at(j) \/ (at(i) = at(j) /\ i <= j)

RECURSIVE FirstPattern(_, _, _)
(* `for pattern in patterns: match = re.search(...); if match:` -- the     *)
(* index of the first pattern of the list that matches, 0 when none does   *)
FirstPattern(patterns, text, k) ==
    IF k > Len(patterns) THEN 0
    ELSE IF Len(re_search(patterns[k], text)) > 0 THEN k
    ELSE FirstPattern(patterns, text, k + 1)

(* pieces shared by the patterns *)
S0 == Rep(Whitespace, 0, -1)

S1 == Rep(Whitespace, 1, -1)

Opt(c) == Rep({c}, 0, 1)

D12 == Rep(Digits, 1, 2)

D4 == Rep(Digits, 4, 4)

SlashDash == Rep({"/", "-"}, 1, 1)

(* \d{1,2}[/-]\d{1,2}[/-]\d{2,4} *)
DateRe == D12 \o SlashDash \o D12 \o SlashDash \o Rep(Digits, 2, 4)

(* \d{1,2}[/-]\w+[/-]\d{2,4} *)
WordDateRe == D12 \o SlashDash \o Rep(WordChars, 1, -1) \o SlashDash \o Rep(Digits, 2, 4)

(* [\d,]+\.?\d* *)
AmountRe == Rep(Digits \cup {","}, 1, -1) \o Opt(".") \o Rep(Digits, 0, -1)

(* [\d,]+\.\d{2} *)
RowAmountRe == Rep(Digits \cup {","}, 1, -1) \o Rep({"."}, 1, 1) \o Rep(Digits, 2, 2)

(* (?:X+|\*+)? *)
MaskOpt == G(<< Rep({"x"}, 1, -1), Rep({"*"}, 1, -1), <<>> >>)

(* (?:Rs\.?|INR|₹)? *)
CurrencyOpt == G(<< Lit(<<"r", "s">>) \o Opt("."), Lit(<<"i", "n", "r">>), Lit(<<"₹">>), <<>> >>)

(***************************************************************************)
(* Field extractors.  Each takes the full text and walks its own ordered   *)
(* pattern list.                                                           *)
(***************************************************************************)
(* the capture group g of the first pattern that matches, None when none does *)
FirstGroup(patterns, text, g) ==
    LET k == FirstPattern(patterns, text, 1)
    IN  IF k = 0 THEN None
        ELSE group(patterns[k], re_search(patterns[k], text), text, g)

(* Label\s*:?\s* *)
Colon == S0 \o Opt(":") \o S0

(* ---- HDFCParser ---- *)
HDFCParser_card_number_patterns ==
    << << P(Lit(<<"c", "a", "r", "d">>) \o S1), G(<< Lit(<<"n", "u", "m", "b", "e", "r">>), Lit(<<"n", "o">>) \o Opt(".") >>),
          P(Colon), MaskOpt, C(D4) >>,
       << G(<< Rep({"x"}, 12, 12), Rep({"*"}, 12, 12) >>), C(D4) >>,
       << P(Lit(<<"c", "a", "r", "d">>) \o S1 \o Lit(<<"e", "n", "d", "i", "n", "g">>) \o S1), G(<< Lit(<<"w", "i", "t", "h">>), Lit(<<"i", "n">>) >>),
          P(S1), C(D4) >>,
       << C(D4), P(S1 \o Lit(<<"h", "d", "f", "c">>)) >> >>

HDFCParser_billing_cycle_patterns ==
    << << P(Lit(<<"s", "t", "a", "t", "e", "m", "e", "n", "t">>) \o S1), G(<< Lit(<<"p", "e", "r", "i", "o", "d">>), Lit(<<"d", "a", "t", "e">>), Lit(<<"f", "r", "o", "m">>) >>),
          P(Colon), C(DateRe), P(S1), G(<< Lit(<<"t", "o">>), Lit(<<"-">>), Lit(<<"t", "i", "l", "l">>) >>), P(S1), C(DateRe) >>,
       << P(Lit(<<"b", "i", "l", "l", "i", "n", "g">>) \o S1 \o Lit(<<"c", "y", "c", "l", "e">>) \o Colon), C(DateRe),
          P(S1), G(<< Lit(<<"t", "o">>), Lit(<<"-">>), Lit(<<"t", "i", "l", "l">>) >>), P(S1), C(DateRe) >>,
       << P(Lit(<<"f", "r", "o", "m">>) \o S1), C(DateRe), P(S1), G(<< Lit(<<"t", "o">>), Lit(<<"t", "o">>) >>), P(S1), C(DateRe) >> >>

HDFCParser_due_date_patterns ==
    << << P(Lit(<<"p", "a", "y", "m", "e", "n", "t">>) \o S1 \o Lit(<<"d", "u", "e">>) \o S1), G(<< Lit(<<"d", "a", "t", "e">>), Lit(<<"b", "y">>) >>),
          P(Colon), C(DateRe) >>,
       << P(Lit(<<"d", "u", "e">>) \o S1 \o Lit(<<"d", "a", "t", "e">>) \o Colon), C(DateRe) >>,
       << P(Lit(<<"p", "a", "y">>) \o S1 \o Lit(<<"b", "y">>) \o Colon), C(DateRe) >> >>

HDFCParser_amount_due_patterns ==
    << << P(Lit(<<"t", "o", "t", "a", "l">>) \o S1 \o Lit(<<"a", "m", "o", "u", "n", "t">>) \o S1 \o Lit(<<"d", "u", "e">>) \o Colon), CurrencyOpt, P(S0), C(AmountRe) >>,
       << P(Lit(<<"a", "m", "o", "u", "n", "t">>) \o S1 \o Lit(<<"d", "u", "e">>) \o Colon), CurrencyOpt, P(S0), C(AmountRe) >>,
       << P(Lit(<<"n", "e", "w">>) \o S1 \o Lit(<<"b", "a", "l", "a", "n", "c", "e">>) \o Colon), CurrencyOpt, P(S0), C(AmountRe) >>,
       << P(Lit(<<"c", "u", "r", "r", "e", "n", "t">>) \o S1 \o Lit(<<"o", "u", "t", "s", "t", "a", "n", "d", "i", "n", "g">>) \o Colon), CurrencyOpt, P(S0), C(AmountRe) >> >>

(* ---- ICICIParser ---- *)
ICICIParser_card_number_patterns ==
    << << P(Lit(<<"c", "a", "r", "d">>) \o S1 \o Lit(<<"n", "u", "m", "b", "e", "r">>) \o Colon), MaskOpt, C(D4) >>,
       << C(D4), P(S0 \o Lit(<<"i", "c", "i", "c", "i">>)) >>,
       << P(Lit(<<"e", "n", "d", "i", "n", "g">>) \o S1), G(<< Lit(<<"w", "i", "t", "h">>), Lit(<<"i", "n">>) >>), P(S1), C(D4) >> >>

ICICIParser_billing_cycle_patterns ==
    << << P(Lit(<<"s", "t", "a", "t", "e", "m", "e", "n", "t">>) \o S1 \o Lit(<<"p", "e", "r", "i", "o", "d">>) \o Colon), C(DateRe),
          P(S1 \o Lit(<<"t", "o">>) \o S1), C(DateRe) >>,
       << P(Lit(<<"f", "r", "o", "m">>) \o S1), C(WordDateRe), P(S1 \o Lit(<<"t", "o">>) \o S1), C(WordDateRe) >> >>

ICICIParser_due_date_patterns ==
    << << P(Lit(<<"p", "a", "y", "m", "e", "n", "t">>) \o S1 \o Lit(<<"d", "u", "e">>) \o S1 \o Lit(<<"d", "a", "t", "e">>) \o Colon), C(DateRe) >>,
       << P(Lit(<<"d", "u", "e">>) \o S1 \o Lit(<<"d", "a", "t", "e">>) \o Colon), C(DateRe) >> >>

ICICIParser_amount_due_patterns ==
    << << P(Lit(<<"t", "o", "t", "a", "l">>) \o S1 \o Lit(<<"a", "m", "o", "u", "n", "t">>) \o S1 \o Lit(<<"d", "u", "e">>) \o Colon), CurrencyOpt, P(S0), C(AmountRe) >>,
       << P(Lit(<<"a", "m", "o", "u", "n", "t">>) \o S1 \o Lit(<<"p", "a", "y", "a", "b", "l", "e">>) \o Colon), CurrencyOpt, P(S0), C(AmountRe) >> >>

(* ---- AxisParser ---- *)
AxisParser_card_number_patterns ==
    << << P(Lit(<<"c", "a", "r", "d">>) \o S1 \o Lit(<<"n", "u", "m", "b", "e", "r">>) \o Colon), MaskOpt, C(D4) >>,
       << C(D4), P(S0 \o Lit(<<"a", "x", "i", "s">>)) >> >>

AxisParser_billing_cycle_patterns ==
    << << P(Lit(<<"s", "t", "a", "t", "e", "m", "e", "n", "t">>) \o S1 \o Lit(<<"p", "e", "r", "i", "o", "d">>) \o Colon), C(DateRe),
          P(S1 \o Lit(<<"t", "o">>) \o S1), C(DateRe) >>,
       << P(Lit(<<"f", "r", "o", "m">>) \o S1), C(DateRe), P(S1 \o Lit(<<"t", "o">>) \o S1), C(DateRe) >> >>

AxisParser_due_date_patterns ==
    << << P(Lit(<<"p", "a", "y", "m", "e", "n", "t">>) \o S1 \o Lit(<<"d", "u", "e">>) \o S1 \o Lit(<<"d", "a", "t", "e">>) \o Colon), C(DateRe) >>,
       << P(Lit(<<"d", "u", "e">>) \o S1 \o Lit(<<"d", "a", "t", "e">>) \o Colon), C(DateRe) >> >>

AxisParser_amount_due_patterns ==
    << << P(Lit(<<"t", "o", "t", "a", "l">>) \o S1 \o Lit(<<"a", "m", "o", "u", "n", "t">>) \o S1 \o Lit(<<"d", "u", "e">>) \o Colon), CurrencyOpt, P(S0), C(AmountRe) >>,
       << P(Lit(<<"a", "m", "o", "u", "n", "t">>) \o S1 \o Lit(<<"p", "a", "y", "a", "b", "l", "e">>) \o Colon), CurrencyOpt, P(S0), C(AmountRe) >> >>

(* the issuers whose parser class is defined in the source *)
Issuers == {"hdfc", "icici", "axis"}

card_number_patterns(issuer) ==
    CASE issuer = "hdfc" -> HDFCParser_card_number_patterns
      [] issuer = "icici" -> ICICIParser_card_number_patterns
      [] issuer = "axis" -> AxisParser_card_number_patterns

billing_cycle_patterns(issuer) ==
    CASE issuer = "hdfc" -> HDFCParser_billing_cycle_patterns
      [] issuer = "icici" -> ICICIParser_billing_cycle_patterns
      [] issuer = "axis" -> AxisParser_billing_cycle_patterns

due_date_patterns(issuer) ==
    CASE issuer = "hdfc" -> HDFCParser_due_date_patterns
      [] issuer = "icici" -> ICICIParser_due_date_patterns
      [] issuer = "axis" -> AxisParser_due_date_patterns

amount_due_patterns(issuer) ==
    CASE issuer = "hdfc" -> HDFCParser_amount_due_patterns
      [] issuer = "icici" -> ICICIParser_amount_due_patterns
      [] issuer = "axis" -> AxisParser_amount_due_patterns

(* extract_card_number: match.group(1), or None *)
extract_card_number(issuer, text) == FirstGroup(card_number_patterns(issuer), text, 1)

(* extract_billing_cycle: the pair of standardized dates, or (None, None) *)
extract_billing_cycle(issuer, text) ==
    LET patterns == billing_cycle_patterns(issuer)
        k == FirstPattern(patterns, text, 1)
    IN  IF k = 0 THEN <<None, None>>
        ELSE LET match == re_search(patterns[k], text)
             IN  << standardize_date(group(patterns[k], match, text, 1)),
                    standardize_date(group(patterns[k], match, text, 2)) >>

(* extract_due_date: standardize_date(match.group(1)), or None *)
extract_due_date(issuer, text) ==
    LET g == FirstGroup(due_date_patterns(issuer), text, 1)
    IN  IF g = None THEN None ELSE standardize_date(g)

(* extract_amount_due: parse_indian_amount(match.group(1)), or None *)
extract_amount_due(issuer, text) ==
    LET g == FirstGroup(amount_due_patterns(issuer), text, 1)
    IN  IF g = None THEN None ELSE parse_indian_amount(g)

(***************************************************************************)
(* Documents.  A document is what the PDF libraries report about one file: *)
(*   path       the file name                                              *)
(*   open_ok    whether pdfplumber.open succeeds                           *)
(*   pages      per page, the outcome of page.extract_text(): a text,      *)
(*              None, or Raises when the call raises                       *)
(*   tabula     the outcome of tabula.read_pdf: [raises, dfs], dfs the     *)
(*              list of data frames, a frame the list of its rows, a row   *)
(*              the list of its cells as str() writes them, NA for a cell  *)
(*              pandas reports missing                                     *)
(*   plumber    per page, the outcome of page.extract_tables():            *)
(*              [raises, tables], a table a list of rows, a row a list of  *)
(*              cells, None for a cell without text                        *)
(***************************************************************************)
Raises == <<"raise">>

(* detect_bank reading every page instead of pdf.pages[:2] *)
detect_bank_AllPages(d) ==
    IF ~d.open_ok THEN "unknown"
    ELSE IF \E i \in 1..Len(d.pages) : d.pages[i] = Raises THEN "unknown"
    ELSE LET text == Concat([i \in 1..Len(d.pages) |->
                               IF d.pages[i] = None THEN <<>> ELSE Lower(d.pages[i])])
         IN  IF Contains(<<"h", "d", "f", "c">>, text) THEN "hdfc"
             ELSE IF Contains(<<"i", "c", "i", "c", "i">>, text) THEN "icici"
             ELSE IF Contains(<<"s", "b", "i", " ", "c", "a", "r", "d">>, text) \/ Contains(<<"s", "b", "i", " ", "c", "r", "e", "d", "i", "t">>, text) THEN "sbi"
             ELSE IF Contains(<<"a", "x", "i", "s">>, text) THEN "axis"
             ELSE IF Contains(<<"k", "o", "t", "a", "k">>, text) THEN "kotak"
             ELSE "unknown"

(* CreditCardStatementProcessor.detect_bank *)
detect_bank(d) ==
    IF ~d.open_ok THEN "unknown"
    ELSE LET first2 == SubSeq(d.pages, 1, IF Len(d.pages) < 2 THEN Len(d.pages) ELSE 2)
         IN  IF \E i \in 1..Len(first2) : first2[i] = Raises THEN "unknown"
             ELSE LET text == Concat([i \in 1..Len(first2) |->
                                        IF first2[i] = None THEN <<>> ELSE Lower(first2[i])])
                  IN  IF Contains(<<"h", "d", "f", "c">>, text) THEN "hdfc"
                      ELSE IF Contains(<<"i", "c", "i", "c", "i">>, text) THEN "icici"
                      ELSE IF Contains(<<"s", "b", "i", " ", "c", "a", "r", "d">>, text) \/ Contains(<<"s", "b", "i", " ", "c", "r", "e", "d", "i", "t">>, text) THEN "sbi"
                      ELSE IF Contains(<<"a", "x", "i", "s">>, text) THEN "axis"
                      ELSE IF Contains(<<"k", "o", "t", "a", "k">>, text) THEN "kotak"
                      ELSE "unknown"

(***************************************************************************)
(* Transaction recoverers                                                  *)
(***************************************************************************)
(* a cell for which pd.notna is false *)
NA == <<"NA">>

RECURSIVE Join(_, _)
(* sep.join(parts) *)
Join(parts, sep) ==
    IF Len(parts) = 0 THEN <<>>
    ELSE IF Len(parts) = 1 THEN parts[1]
    ELSE parts[1] \o sep \o Join(Tail(parts), sep)

(* str(x) of a cell: the text itself, "None" for None *)
Str(cell) == IF cell = None THEN <<"N", "o", "n", "e">> ELSE cell

(* ' '.join([str(x) for x in row.values if pd.notna(x)]) *)
RowStr(row) == Join(SelectSeq(row, LAMBDA x : x # NA), <<" ">>)

(* the body of the row loop of the structured tier: the transactions (none *)
(* or one) that one row of a data frame contributes                        *)
StructuredRow(row) ==
    LET row_str == RowStr(row)
        date_match == re_search(<<C(DateRe)>>, row_str)
        amount_match == re_search(<<C(RowAmountRe)>>, row_str)
    IN  IF Len(date_match) > 0 /\ Len(amount_match) > 0
        THEN << [Date |-> standardize_date(group(<<C(DateRe)>>, date_match, row_str, 1)),
                 Description |-> Strip(row_str),
                 Amount |-> parse_indian_amount(group(<<C(RowAmountRe)>>, amount_match, row_str, 1))] >>
        ELSE <<>>

RECURSIVE StructuredRows(_)
(* `for idx, row in df.iterrows()` *)
StructuredRows(df) ==
    IF Len(df) = 0 THEN <<>> ELSE StructuredRow(Head(df)) \o StructuredRows(Tail(df))

(* len(df.columns) and df.empty *)
NumColumns(df) == IF Len(df) = 0 THEN 0 ELSE Len(df[1])

RECURSIVE StructuredTables(_, _)
(* `for df in dfs`; HDFCParser skips a frame that is empty or has fewer    *)
(* than three columns (min_columns = 3), the other parsers skip none       *)
StructuredTables(dfs, min_columns) ==
    IF Len(dfs) = 0 THEN <<>>
    ELSE (IF NumColumns(Head(dfs)) < min_columns THEN <<>> ELSE StructuredRows(Head(dfs)))
         \o StructuredTables(Tail(dfs), min_columns)

(* the body of the row loop of the fallback tier of HDFCParser *)
FallbackRow(row) ==
    IF Len(row) >= 3
    THEN LET date_match == re_search(<<C(DateRe)>>, Str(row[1]))
         IN  IF Len(date_match) > 0
             THEN << [Date |-> standardize_date(group0(date_match, Str(row[1]))),
                      Description |-> Str(row[2]),
                      Amount |-> parse_indian_amount(Str(row[Len(row)]))] >>
             ELSE <<>>
    ELSE <<>>

RECURSIVE FallbackRows(_)
FallbackRows(rows) ==
    IF Len(rows) = 0 THEN <<>> ELSE FallbackRow(Head(rows)) \o FallbackRows(Tail(rows))

RECURSIVE FallbackTables(_)
(* `for table in tables: if not table: continue; for row in table[1:]` *)
FallbackTables(tables) ==
    IF Len(tables) = 0 THEN <<>>
    ELSE (IF Len(Head(tables)) = 0 THEN <<>> ELSE FallbackRows(Tail(Head(tables))))
         \o FallbackTables(Tail(tables))

RECURSIVE FallbackPages(_)
(* `for page in pdf.pages` inside the inner try: a page whose              *)
(* extract_tables() raises ends the loop, the bare except swallows the     *)
(* error and the transactions appended so far stay                         *)
FallbackPages(pages) ==
    IF Len(pages) = 0 THEN <<>>
    ELSE IF Head(pages).raises THEN <<>>
    ELSE FallbackTables(Head(pages).tables) \o FallbackPages(Tail(pages))

(* HDFCParser.extract_transactions: [transactions, steps] *)
HDFCParser_extract_transactions(d) ==
    IF ~d.tabula.raises
    THEN [transactions |-> StructuredTables(d.tabula.dfs, 3), steps |-> <<"structured">>]
    ELSE [transactions |-> IF d.open_ok THEN FallbackPages(d.plumber) ELSE <<>>,
          steps |-> <<"structured", "fallback">>]

(* ICICIParser.extract_transactions *)
ICICIParser_extract_transactions(d) ==
    IF ~d.tabula.raises
    THEN [transactions |-> StructuredTables(d.tabula.dfs, 0), steps |-> <<"structured">>]
    ELSE [transactions |-> <<>>, steps |-> <<"structured">>]

(* AxisParser.extract_transactions *)
AxisParser_extract_transactions(d) ==
    IF ~d.tabula.raises
    THEN [transactions |-> StructuredTables(d.tabula.dfs, 0), steps |-> <<"structured">>]
    ELSE [transactions |-> <<>>, steps |-> <<"structured">>]

extract_transactions(issuer, d) ==
    CASE issuer = "hdfc" -> HDFCParser_extract_transactions(d)
      [] issuer = "icici" -> ICICIParser_extract_transactions(d)
      [] issuer = "axis" -> AxisParser_extract_transactions(d)

(***************************************************************************)
(* BaseCreditCardParser                                                    *)
(***************************************************************************)
(* self.bank_name set by each parser's __init__ *)
bank_name(issuer) ==
    CASE issuer = "hdfc" -> "HDFC Bank"
      [] issuer = "icici" -> "ICICI Bank"
      [] issuer = "axis" -> "Axis Bank"

(* self.extracted_data as BaseCreditCardParser.__init__ leaves it *)
InitialData ==
    [ card_last_4_digits |-> None,
      billing_cycle_start |-> None,
      billing_cycle_end |-> None,
      payment_due_date |-> None,
      total_amount_due |-> None,
      transactions |-> <<>> ]

(* the parser object: parser_class(str(pdf_path)) *)
NewParser(issuer, path) ==
    [ issuer |-> issuer, pdf_path |-> path, bank_name |-> bank_name(issuer),
      extracted_data |-> InitialData ]

(* the index of the first page whose text cannot be appended to full_text, 0 if none *)
FirstBadPage(pages) ==
    IF \E i \in 1..Len(pages) : pages[i] \in {None, Raises}
    THEN CHOOSE i \in 1..Len(pages) :
            /\ pages[i] \in {None, Raises}
            /\ \A j \in 1..(i - 1) : pages[j] \notin {None, Raises}
    ELSE 0

(* full_text after `for page in pdf.pages: full_text += page.extract_text() + "\n"` *)
FullText(d) == Concat([i \in 1..Len(d.pages) |-> d.pages[i] \o <<"\n">>])

(* the dict returned by the except clause of parse *)
ParseFailure(p, e, steps) ==
    [ result |-> [success |-> FALSE, bank |-> p.bank_name, error |-> e,
                  data |-> p.extracted_data],
      steps |-> steps ]

(* the body of the `with` block of parse and the dict returned after it *)
ParseSuccess(p, d) ==
    LET parsed(full_text, cycle, txns) ==
            [ result |->
                [ success |-> TRUE, bank |-> p.bank_name,
                  data |-> [ card_last_4_digits |-> extract_card_number(p.issuer, full_text),
                             billing_cycle_start |-> cycle[1],
                             billing_cycle_end |-> cycle[2],
                             payment_due_date |-> extract_due_date(p.issuer, full_text),
                             total_amount_due |-> extract_amount_due(p.issuer, full_text),
                             transactions |-> txns.transactions ] ],
              steps |-> <<"open", "extract_text", "extract_card_number",
                          "extract_billing_cycle", "extract_due_date",
                          "extract_amount_due", "extract_transactions">> \o txns.steps ]
    IN  CHOOSE r \in
            { parsed(full_text, cycle, txns) :
                full_text \in { FullText(d) },
                cycle \in { extract_billing_cycle(p.issuer, FullText(d)) },
                txns \in { extract_transactions(p.issuer, d) } } : TRUE

(* str(e) for the first page whose text cannot be appended *)
TextError(page) ==
    IF page = None THEN "unsupported operand type(s) for +: 'NoneType' and 'str'"
    ELSE "extract_text failed"

(* parse with a scalar field that no pattern finds treated as fatal *)
parse_FatalMissingField(p, d) ==
    IF ~d.open_ok THEN ParseFailure(p, "cannot open the document", <<"open">>)
    ELSE IF FirstBadPage(d.pages) # 0
    THEN ParseFailure(p, TextError(d.pages[FirstBadPage(d.pages)]), <<"open", "extract_text">>)
    ELSE IF \E f \in {"card_last_4_digits", "billing_cycle_start", "billing_cycle_end",
                      "payment_due_date", "total_amount_due"} :
                ParseSuccess(p, d).result.data[f] = None
    THEN ParseFailure(p, "field not found", ParseSuccess(p, d).steps)
    ELSE ParseSuccess(p, d)

(* parse with the error of tabula.read_pdf propagating out of extract_transactions *)
parse_PropagatingRecoverer(p, d) ==
    IF ~d.open_ok THEN ParseFailure(p, "cannot open the document", <<"open">>)
    ELSE IF FirstBadPage(d.pages) # 0
    THEN ParseFailure(p, TextError(d.pages[FirstBadPage(d.pages)]), <<"open", "extract_text">>)
    ELSE IF d.tabula.raises
    THEN ParseFailure(p, "read_pdf failed", ParseSuccess(p, d).steps)
    ELSE ParseSuccess(p, d)

(* parse with the error of tabula.read_pdf leaving extract_transactions     *)
(* after the scalar fields were stored in extracted_data                   *)
parse_RaisingAfterFields(p, d) ==
    IF ~d.open_ok THEN ParseFailure(p, "cannot open the document", <<"open">>)
    ELSE IF FirstBadPage(d.pages) # 0
    THEN ParseFailure(p, TextError(d.pages[FirstBadPage(d.pages)]), <<"open", "extract_text">>)
    ELSE IF d.tabula.raises
    THEN ParseFailure([p EXCEPT !.extracted_data =
                           [ParseSuccess(p, d).result.data EXCEPT !.transactions = <<>>]],
                      "read_pdf failed", ParseSuccess(p, d).steps)
    ELSE ParseSuccess(p, d)

(* BaseCreditCardParser.parse: [result, steps] *)
parse(p, d) ==
    IF ~d.open_ok THEN ParseFailure(p, "cannot open the document", <<"open">>)
    ELSE IF FirstBadPage(d.pages) # 0
    THEN ParseFailure(p, TextError(d.pages[FirstBadPage(d.pages)]), <<"open", "extract_text">>)
    ELSE ParseSuccess(p, d)

(* BaseCreditCardParser.to_dataframe: the rows of the frame *)
to_dataframe(p) ==
    [ i \in 1..Len(p.extracted_data.transactions) |->
        [ Date |-> p.extracted_data.transactions[i].Date,
          Description |-> p.extracted_data.transactions[i].Description,
          Amount |-> p.extracted_data.transactions[i].Amount,
          Card_Last_4_Digits |-> p.extracted_data.card_last_4_digits,
          Billing_Cycle |-> Str(p.extracted_data.billing_cycle_start) \o <<" ", "t", "o", " ">>
                            \o Str(p.extracted_data.billing_cycle_end),
          Payment_Due_Date |-> p.extracted_data.payment_due_date,
          Total_Amount_Due |-> p.extracted_data.total_amount_due,
          Bank |-> p.bank_name ] ]

(* self.bank_keywords: issuer tag -> parser class *)
bank_keywords ==
    [ hdfc |-> "HDFCParser", icici |-> "ICICIParser", sbi |-> "SBIParser",
      axis |-> "AxisParser", kotak |-> "KotakParser" ]

(***************************************************************************)
(* Date tokens handed to standardize_date: a day, a month and a year part  *)
(* joined by two separators, in day-month-year and year-month-day order,   *)
(* bare or padded with blanks.  Years are at least 1000, where strftime    *)
(* pads %Y to four digits on every platform.                               *)
(***************************************************************************)
DayParts == { <<"5">>, <<"0","5">>, <<"2","9">>, <<"3","1">>, <<"3","2">> }

MonthParts == { <<"2">>, <<"0","2">>, <<"1","2">>, <<"1","3">>,
                <<"F","e","b">>, <<"m","a","y">>, <<"M","a","r","c","h">> }

YearParts == { <<"2","4">>, <<"9","9">>, <<"2","0","2">>, <<"2","0","2","3">>, <<"2","0","2","4">> }

SepParts == { <<"/">>, <<"-">>, <<".">>, <<" ">> }

DateTokens ==
    LET bare == { a \o s1 \o b \o s2 \o c :
                    <<a, b, c>> \in (DayParts \X MonthParts \X YearParts)
                              \cup (YearParts \X MonthParts \X DayParts),
                    s1 \in SepParts, s2 \in SepParts }
    IN  bare \cup { <<" ">> \o t \o <<" ">> : t \in { a \o s \o b \o s \o c :
                       a \in DayParts, b \in MonthParts, c \in YearParts, s \in {<<"/">>} } }

(* the idle value of the variables a specification does not use *)
Idle == <<>>

InitDate ==
    /\ pc = "idle"
    /\ arg = None /\ ret = None
    /\ doc = Idle /\ bank = Idle /\ parser = Idle /\ result = Idle /\ ran = Idle

(* a caller hands a token to standardize_date *)
StandardizeDate ==
    /\ pc = "idle"
    /\ \E date_str \in DateTokens :
          /\ arg' = date_str
          /\ ret' = standardize_date(date_str)
    /\ pc' = "standardized"
    /\ UNCHANGED <<doc, bank, parser, result, ran>>

(* the returned value is handed to standardize_date once more *)
StandardizeAgain ==
    /\ pc = "standardized"
    /\ arg' = ret
    /\ ret' = standardize_date(ret)
    /\ pc' = "restandardized"
    /\ UNCHANGED <<doc, bank, parser, result, ran>>

NextDate == StandardizeDate \/ StandardizeAgain

SpecDate == InitDate /\ [][NextDate]_vars

(***************************************************************************)
(* Amount tokens handed to parse_indian_amount: up to MaxAmountParts parts *)
(***************************************************************************)
MaxAmountParts == 4

AmountParts == { <<"(">>, <<")">>, <<"1", ",", "2", "3", "4">>, <<".", "5", "0">>, <<"7">>,
                 <<"-">>, <<"₹">>, <<" ">>, <<"n", "a", "n">>, <<"R", "s", ".">> }

AmountTokens ==
    { Concat(ps) : ps \in UNION { [1..n -> AmountParts] : n \in 1..MaxAmountParts } }

InitAmount ==
    /\ pc = "idle"
    /\ arg = None /\ ret = None
    /\ doc = Idle /\ bank = Idle /\ parser = Idle /\ result = Idle /\ ran = Idle

(* a caller hands a token to parse_indian_amount *)
ParseAmount ==
    /\ pc = "idle"
    /\ \E amount_str \in AmountTokens :
          /\ arg' = amount_str
          /\ ret' = parse_indian_amount(amount_str)
    /\ pc' = "amount_parsed"
    /\ UNCHANGED <<doc, bank, parser, result, ran>>

NextAmount == ParseAmount

SpecAmount == InitAmount /\ [][NextAmount]_vars

(***************************************************************************)
(* Statement texts handed to the field extractors: up to MaxFieldLines     *)
(* different lines of FieldLines, in any order                             *)
(***************************************************************************)
MaxFieldLines == 2

FieldLines ==
    { <<"P", "a", "y", "m", "e", "n", "t", " ", "D", "u", "e", " ", "D", "a", "t", "e", ":", " ", "0", "1", "/", "0", "5", "/", "2", "0", "2", "4", "\n">>,
      <<"D", "u", "e", " ", "D", "a", "t", "e", ":", " ", "0", "2", "/", "0", "5", "/", "2", "0", "2", "4", "\n">>,
      <<"T", "o", "t", "a", "l", " ", "A", "m", "o", "u", "n", "t", " ", "D", "u", "e", ":", " ", "R", "s", ".", " ", "1", "2", ",", "3", "4", "5", ".", "6", "7", "\n">>,
      <<"A", "m", "o", "u", "n", "t", " ", "D", "u", "e", " ", "₹", "5", "0", "0", "\n">>,
      <<"A", "m", "o", "u", "n", "t", " ", "P", "a", "y", "a", "b", "l", "e", ":", " ", "I", "N", "R", " ", "7", ".", "5", "\n">>,
      <<"C", "a", "r", "d", " ", "N", "u", "m", "b", "e", "r", " ", "4", "3", "2", "1", "\n">>,
      <<"C", "a", "r", "d", " ", "e", "n", "d", "i", "n", "g", " ", "i", "n", " ", "9", "9", "9", "9", " ", "A", "x", "i", "s", "\n">>,
      <<"S", "t", "a", "t", "e", "m", "e", "n", "t", " ", "P", "e", "r", "i", "o", "d", ":", " ", "0", "1", "/", "0", "1", "/", "2", "0", "2", "4", " ", "t", "o", " ", "3", "1", "/", "0", "1", "/", "2", "0", "2", "4", "\n">>,
      <<"F", "r", "o", "m", " ", "1", "-", "2", "-", "2", "4", " ", "T", "o", " ", "2", "8", "-", "2", "-", "2", "4", "\n">> }

(* the injective sequences of lines *)
LineSeqs(n) == { ls \in [1..n -> FieldLines] : \A i, j \in 1..n : ls[i] = ls[j] => i = j }

FieldTexts == { Concat(ls) : ls \in UNION { LineSeqs(n) : n \in 1..MaxFieldLines } }

InitField ==
    /\ pc = "idle"
    /\ arg = None /\ ret = None
    /\ doc = Idle /\ bank = Idle /\ parser = Idle /\ result = Idle /\ ran = Idle

ExtractCardNumber ==
    /\ pc = "idle"
    /\ \E issuer \in Issuers, text \in FieldTexts :
          /\ arg' = <<issuer, text>>
          /\ ret' = extract_card_number(issuer, text)
    /\ pc' = "card_number"
    /\ UNCHANGED <<doc, bank, parser, result, ran>>

ExtractBillingCycle ==
    /\ pc = "idle"
    /\ \E issuer \in Issuers, text \in FieldTexts :
          /\ arg' = <<issuer, text>>
          /\ ret' = extract_billing_cycle(issuer, text)
    /\ pc' = "billing_cycle"
    /\ UNCHANGED <<doc, bank, parser, result, ran>>

ExtractDueDate ==
    /\ pc = "idle"
    /\ \E issuer \in Issuers, text \in FieldTexts :
          /\ arg' = <<issuer, text>>
          /\ ret' = extract_due_date(issuer, text)
    /\ pc' = "due_date"
    /\ UNCHANGED <<doc, bank, parser, result, ran>>

ExtractAmountDue ==
    /\ pc = "idle"
    /\ \E issuer \in Issuers, text \in FieldTexts :
          /\ arg' = <<issuer, text>>
          /\ ret' = extract_amount_due(issuer, text)
    /\ pc' = "amount_due"
    /\ UNCHANGED <<doc, bank, parser, result, ran>>

NextField == ExtractCardNumber \/ ExtractBillingCycle \/ ExtractDueDate \/ ExtractAmountDue

SpecField == InitField /\ [][NextField]_vars


(***************************************************************************)
(* Documents handed to detect_bank: up to MaxDetectPages pages             *)
(***************************************************************************)
MaxDetectPages == 3

DetectPageTexts ==
    { None, Raises, <<>>,
      <<"H", "D", "F", "C", " ", "B", "a", "n", "k", " ", "C", "r", "e", "d", "i", "t", " ", "C", "a", "r", "d">>,
      <<"P", "a", "y", " ", "v", "i", "a", " ", "I", "C", "I", "C", "I", " ", "o", "r", " ", "h", "d", "f", "c", " ", "n", "e", "t", "b", "a", "n", "k", "i", "n", "g">>,
      <<"i", "c", "i", "c", "i", " ", "b", "a", "n", "k">>,
      <<"S", "B", "I", " ", "C", "a", "r", "d", " ", "s", "t", "a", "t", "e", "m", "e", "n", "t">>,
      <<"S", "t", "a", "t", "e", " ", "B", "a", "n", "k", " ", "s", "b", "i", " ", "c", "r", "e", "d", "i", "t">>,
      <<"S", "B", "I">>,
      <<"A", "x", "i", "s", " ", "B", "a", "n", "k">>,
      <<"k", "o", "t", "a", "k", " ", "m", "a", "h", "i", "n", "d", "r", "a", ",", " ", "a", "x", "i", "s">>,
      <<"K", "o", "t", "a", "k", " ", "B", "a", "n", "k">>,
      <<"S", "t", "a", "t", "e", "m", "e", "n", "t", " ", "o", "f", " ", "a", "c", "c", "o", "u", "n", "t", " ", "H", "D">>,
      <<"F", "C", " ", "p", "a", "g", "e">> }

DetectDocs ==
    [ path : {"statement.pdf"},
      open_ok : BOOLEAN,
      pages : UNION { [1..n -> DetectPageTexts] : n \in 1..MaxDetectPages },
      tabula : {[raises |-> TRUE, dfs |-> <<>>]},
      plumber : {<<>>} ]

InitDetect ==
    /\ pc = "start"
    /\ doc \in DetectDocs
    /\ bank = Idle /\ parser = Idle /\ result = Idle /\ ran = <<>>
    /\ arg = None /\ ret = None

(* bank = self.detect_bank(pdf_path) *)
DetectBank ==
    /\ pc = "start"
    /\ bank' = detect_bank(doc)
    /\ ran' = Append(ran, "detect_bank")
    /\ pc' = "detected"
    /\ UNCHANGED <<doc, parser, result, arg, ret>>

NextDetect == DetectBank

SpecDetect == InitDetect /\ [][NextDetect]_vars


(***************************************************************************)
(* Documents handed to process_single_statement: up to MaxPages pages and  *)
(* up to MaxTables data frames.  The issuers are the ones whose parser     *)
(* class the source defines.                                               *)
(***************************************************************************)
MaxPages == 2

MaxTables == 1

StatementPageTexts ==
    { None, Raises,
      <<"H", "D", "F", "C", " ", "B", "a", "n", "k", "\n", "C", "a", "r", "d", " ", "N", "o", ":", " ", "X", "X", "X", "X", "1", "2", "3", "4", "\n", "S", "t", "a", "t", "e", "m", "e", "n", "t", " ", "P", "e", "r", "i", "o", "d", ":", " ", "0", "1", "/", "0", "1", "/", "2", "0", "2", "4", " ", "t", "o", " ", "3", "1", "/", "0", "1", "/", "2", "0", "2", "4", "\n", "D", "u", "e", " ", "D", "a", "t", "e", ":", " ", "3", "1", "/", "0", "2", "/", "2", "0", "2", "4", "\n", "T", "o", "t", "a", "l", " ", "A", "m", "o", "u", "n", "t", " ", "D", "u", "e", ":", " ", "R", "s", ".", " ", "1", "2", ",", "3", "4", "5", ".", "6", "7", "\n">>,
      <<"I", "C", "I", "C", "I", " ", "B", "a", "n", "k", " ", "C", "a", "r", "d", " ", "N", "u", "m", "b", "e", "r", " ", "4", "3", "2", "1", "\n", "P", "a", "y", "m", "e", "n", "t", " ", "D", "u", "e", " ", "D", "a", "t", "e", ":", " ", "1", "5", "/", "0", "2", "/", "2", "0", "2", "4", "\n", "A", "m", "o", "u", "n", "t", " ", "P", "a", "y", "a", "b", "l", "e", ":", " ", "7", ".", "5", "\n">>,
      <<"A", "x", "i", "s", " ", "B", "a", "n", "k", "\n", "F", "r", "o", "m", " ", "1", "-", "2", "-", "2", "4", " ", "T", "o", " ", "2", "8", "-", "2", "-", "2", "4", "\n">>,
      <<"P", "a", "g", "e", " ", "2", " ", "o", "f", " ", "2">> }

DataFrames ==
    { << <<<<"0", "5", "/", "0", "1", "/", "2", "0", "2", "4">>, <<"G", "r", "o", "c", "e", "r", "y", " ", "S", "t", "o", "r", "e">>, <<"1", ",", "2", "0", "0", ".", "0", "0">>>>,
         <<<<"T", "o", "t", "a", "l">>, NA, <<"1", ",", "2", "0", "0", ".", "0", "0">>>>,
         <<<<"0", "6", "/", "0", "1", "/", "2", "0", "2", "4">>, <<"F", "u", "e", "l">>, <<"9", "0", ".", "5", "0">>>> >>,
      << <<<<"3", "1", "/", "0", "2", "/", "2", "0", "2", "4">>, <<"R", "e", "f", "u", "n", "d">>, <<"(", "5", "0", "0", ".", "0", "0", ")">>>> >>,
      << <<<<"0", "6", "-", "0", "1", "-", "2", "4", " ", "F", "u", "e", "l">>, <<"9", "0", ".", "5", "0">>>> >> }

PlumberPages ==
    { [raises |-> TRUE, tables |-> <<>>],
      [raises |-> FALSE, tables |-> <<>>],
      [raises |-> FALSE,
       tables |-> << << <<<<"D", "a", "t", "e">>, <<"D", "e", "t", "a", "i", "l", "s">>, <<"A", "m", "o", "u", "n", "t">>>>,
                        <<<<"0", "7", "/", "0", "1", "/", "2", "0", "2", "4">>, <<"B", "o", "o", "k", "s">>, <<"(", "2", "5", "0", ".", "0", "0", ")">>>>,
                        <<<<"1", "/", "1", "/", "2", "0", "2">>, None, None>>,
                        <<<<"T", "o", "t", "a", "l">>, <<>>, <<"2", "5", "0", ".", "0", "0">>>>,
                        <<<<"0", "8", "/", "0", "1", "/", "2", "0", "2", "4">>, <<"T", "a", "x", "i">>>> >> >>] }

TabulaOutcomes ==
    { [raises |-> TRUE, dfs |-> <<>>] }
    \cup { [raises |-> FALSE, dfs |-> dfs] :
             dfs \in UNION { [1..n -> DataFrames] : n \in 0..MaxTables } }

(* extract_tables is consulted only by the fallback tier, and that tier    *)
(* only runs after read_pdf raised: the other documents have no plumber    *)
(* pages worth telling apart.  Tables are on the first page; a later page  *)
(* has none or its extract_tables raises.                                  *)
Docs ==
    { d \in [ path : {"statement.pdf"},
              open_ok : BOOLEAN,
              pages : UNION { [1..n -> StatementPageTexts] : n \in 1..MaxPages },
              tabula : TabulaOutcomes,
              plumber : UNION { [1..n -> PlumberPages] : n \in 1..MaxPages } ] :
        /\ Len(d.plumber) = Len(d.pages)
        /\ \A i \in 2..Len(d.plumber) : d.plumber[i].tables = <<>>
        /\ ~d.tabula.raises => \A i \in 1..Len(d.plumber) : d.plumber[i] = [raises |-> FALSE, tables |-> <<>>]
        /\ ~d.open_ok => d.tabula.raises /\ \A i \in 1..Len(d.plumber) : d.plumber[i].raises }

Init ==
    /\ pc = "start"
    /\ doc \in Docs
    /\ bank = Idle /\ parser = Idle /\ result = Idle /\ ran = <<>>
    /\ arg = None /\ ret = None

(* `if bank == 'unknown': return {...}` *)
ReturnUnknown ==
    /\ pc = "detected"
    /\ bank = "unknown"
    /\ result' = [ success |-> FALSE, file |-> doc.path,
                   error |-> "Could not detect bank from statement" ]
    /\ pc' = "returned"
    /\ UNCHANGED <<doc, bank, parser, ran, arg, ret>>

(* parser_class = self.bank_keywords.get(bank); parser = parser_class(str(pdf_path)) *)
GetParser ==
    /\ pc = "detected"
    /\ bank # "unknown"
    /\ IF bank \notin DOMAIN bank_keywords
       THEN /\ result' = [ success |-> FALSE, file |-> doc.path,
                           error |-> "No parser available for " \o bank ]
            /\ pc' = "returned"
            /\ UNCHANGED <<parser, ran>>
       ELSE /\ parser' = NewParser(bank, doc.path)
            /\ ran' = Append(ran, bank_keywords[bank])
            /\ pc' = "constructed"
            /\ UNCHANGED result
    /\ UNCHANGED <<doc, bank, arg, ret>>

(* result = parser.parse() *)
ParseStatement ==
    /\ pc = "constructed"
    /\ \E r \in { parse(parser, doc) } :
           /\ result' = r.result
           /\ parser' = [parser EXCEPT !.extracted_data = r.result.data]
           /\ ran' = ran \o r.steps
    /\ pc' = "parsed"
    /\ UNCHANGED <<doc, bank, arg, ret>>

(* the rest of the try block without the except clause: the error of       *)
(* df.to_csv leaves process_single_statement                               *)
SaveAndReturn_Uncaught ==
    /\ pc = "parsed"
    /\ \E csv_ok \in BOOLEAN :
          IF result.success /\ Len(to_dataframe(parser)) > 0
          THEN /\ ran' = ran \o <<"to_dataframe", "to_csv">>
               /\ result' = IF csv_ok
                            THEN result @@ ("output_csv" :> "statement_" \o bank \o "_extracted.csv")
                                        @@ ("file" :> doc.path)
                            ELSE result
               /\ pc' = IF csv_ok THEN "returned" ELSE "raised"
          ELSE /\ csv_ok
               /\ ran' = IF result.success THEN Append(ran, "to_dataframe") ELSE ran
               /\ result' = result @@ ("file" :> doc.path)
               /\ pc' = "returned"
    /\ UNCHANGED <<doc, bank, parser, arg, ret>>

(* the rest of the try block: the CSV is written when parsing succeeded    *)
(* and the frame has rows; df.to_csv may raise (csv_ok = FALSE), and the   *)
(* except clause then returns a fresh failure dict                         *)
SaveAndReturn ==
    /\ pc = "parsed"
    /\ \E csv_ok \in BOOLEAN :
          IF result.success /\ Len(to_dataframe(parser)) > 0
          THEN /\ ran' = ran \o <<"to_dataframe", "to_csv">>
               /\ result' = IF csv_ok
                            THEN result @@ ("output_csv" :> "statement_" \o bank \o "_extracted.csv")
                                        @@ ("file" :> doc.path)
                            ELSE [ success |-> FALSE, file |-> doc.path,
                                   error |-> "cannot write the CSV file" ]
          ELSE /\ csv_ok
               /\ ran' = IF result.success THEN Append(ran, "to_dataframe") ELSE ran
               /\ result' = result @@ ("file" :> doc.path)
    /\ pc' = "returned"
    /\ UNCHANGED <<doc, bank, parser, arg, ret>>

Next == DetectBank \/ ReturnUnknown \/ GetParser \/ ParseStatement \/ SaveAndReturn

Spec == Init /\ [][Next]_vars

(***************************************************************************)
(* process_all_statements: the batch run over the PDF files of the input   *)
(* directory.  arg holds pdf_files, ret the results list and the summary   *)
(* of generate_summary_report; each file is processed by the actions of    *)
(* process_single_statement above.                                         *)
(***************************************************************************)
MaxFiles == 2

(* str(pdf_file) of the i-th file of the directory listing *)
PdfPath(i) == "statement" \o ToString(i) \o ".pdf"

(* the page texts of the files of a batch: an unreadable page, an HDFC     *)
(* statement and a page without a signature keyword                        *)
BatchPageTexts ==
    { t \in StatementPageTexts :
        \/ t = Raises
        \/ /\ t # None
           /\ ~Contains(<<"i", "c", "i", "c", "i">>, Lower(t))
           /\ ~Contains(<<"a", "x", "i", "s">>, Lower(t)) }

(* the files of a batch: a readable first page, possibly followed by a     *)
(* page without text; read_pdf raises and the first page has the table of  *)
(* PlumberPages; or a file pdfplumber cannot open                          *)
BatchDocs ==
    { [ path |-> "", open_ok |-> TRUE, pages |-> pages,
        tabula |-> [raises |-> TRUE, dfs |-> <<>>],
        plumber |-> [ i \in 1..Len(pages) |->
                        IF i = 1 THEN table_page ELSE [raises |-> FALSE, tables |-> <<>>] ] ] :
          pages \in { <<t>> : t \in BatchPageTexts }
                    \cup { <<t, None>> : t \in BatchPageTexts \ {Raises} },
          table_page \in { p \in PlumberPages : Len(p.tables) > 0 } }
    \cup { [ path |-> "", open_ok |-> FALSE, pages |-> <<Raises>>,
             tabula |-> [raises |-> TRUE, dfs |-> <<>>],
             plumber |-> << [raises |-> TRUE, tables |-> <<>>] >> ] }

(* list(self.input_dir.glob('*.pdf')) + list(self.input_dir.glob('*.PDF')) *)
PdfFileLists ==
    { [ i \in 1..Len(files) |-> [files[i] EXCEPT !.path = PdfPath(i)] ] :
        files \in UNION { [1..n -> BatchDocs] : n \in 0..MaxFiles } }

InitBatch ==
    /\ pc = "batch"
    /\ arg \in PdfFileLists
    /\ ret = [results |-> <<>>, summary |-> None]
    /\ doc = Idle /\ bank = Idle /\ parser = Idle /\ result = Idle /\ ran = <<>>

(* `if not pdf_files: ... return` *)
ReturnNoFiles ==
    /\ pc = "batch"
    /\ Len(arg) = 0
    /\ pc' = "no_files"
    /\ UNCHANGED <<doc, bank, parser, result, ran, arg, ret>>

(* the loop leaving at the first file whose result is a failure *)
ProcessNextFile_StopAtFailure ==
    /\ pc = "batch"
    /\ Len(ret.results) < Len(arg)
    /\ \A i \in 1..Len(ret.results) : ret.results[i].success
    /\ doc' = arg[Len(ret.results) + 1]
    /\ ran' = Append(ran, doc'.path)
    /\ pc' = "start"
    /\ UNCHANGED <<bank, parser, result, arg, ret>>

(* `for pdf_file in pdf_files:` entering process_single_statement with the *)
(* next file of the list; bank, parser and result keep the values of the   *)
(* previous iteration until they are assigned again                        *)
ProcessNextFile ==
    /\ pc = "batch"
    /\ Len(ret.results) < Len(arg)
    /\ doc' = arg[Len(ret.results) + 1]
    /\ ran' = Append(ran, doc'.path)
    /\ pc' = "start"
    /\ UNCHANGED <<bank, parser, result, arg, ret>>

(* results.append(result) *)
AppendResult ==
    /\ pc = "returned"
    /\ ret' = [ret EXCEPT !.results = Append(@, result)]
    /\ pc' = "batch"
    /\ UNCHANGED <<doc, bank, parser, result, ran, arg>>

RECURSIVE CountSuccess(_, _)
(* sum(1 for r in results if r['success'] == flag) *)
CountSuccess(results, flag) ==
    IF Len(results) = 0 THEN 0
    ELSE (IF Head(results).success = flag THEN 1 ELSE 0) + CountSuccess(Tail(results), flag)

(* the summary dict of generate_summary_report, without its timestamp *)
summary(results) ==
    [ total_processed |-> Len(results),
      successful |-> CountSuccess(results, TRUE),
      failed |-> CountSuccess(results, FALSE),
      details |-> results ]

(* self.generate_summary_report(results) after the loop: the summary is    *)
(* built, then written to the report file; open or json.dump may raise     *)
GenerateSummaryReport ==
    /\ pc = "batch"
    /\ Len(arg) > 0
    /\ Len(ret.results) = Len(arg)
    /\ ret' = [ret EXCEPT !.summary = summary(ret.results)]
    /\ \E report_ok \in BOOLEAN :
          pc' = IF report_ok THEN "reported" ELSE "report_raised"
    /\ UNCHANGED <<doc, bank, parser, result, ran, arg>>

NextBatch ==
    \/ ReturnNoFiles
    \/ ProcessNextFile
    \/ DetectBank \/ ReturnUnknown \/ GetParser \/ ParseStatement \/ SaveAndReturn
    \/ AppendResult
    \/ GenerateSummaryReport

SpecBatch == InitBatch /\ [][NextBatch]_vars

(* the steps of the batch run other than the calls of detect_bank and      *)
(* parse                                                                   *)
BatchStep ==
    \/ ReturnNoFiles \/ ProcessNextFile
    \/ ReturnUnknown \/ GetParser \/ SaveAndReturn
    \/ AppendResult \/ GenerateSummaryReport

(* detect_bank and parse return: the steps DetectBank and ParseStatement,  *)
(* which can be taken whenever control is at them, seen from outside       *)
CallReturns ==
    \/ pc = "start" /\ pc' = "detected"
    \/ pc = "constructed" /\ pc' = "parsed"

(* the run is one thread executing synchronous calls: every call of the    *)
(* loop body returns or raises (pdfplumber, tabula and the file system are *)
(* taken to answer), so a step that can be taken is taken                  *)
FairSpecBatch == SpecBatch /\ WF_pc(BatchStep) /\ WF_pc(CallReturns)

(***************************************************************************)
(* Properties of process_single_statement, checked under Spec              *)
(***************************************************************************)
(* pdfplumber opens the document and every page yields a text *)
TextObtained(d) ==
    d.open_ok /\ \A i \in 1..Len(d.pages) : d.pages[i] \notin {None, Raises}

(* the signature keywords of the issuers, in the order detect_bank tests them *)
IssuerTags == <<"hdfc", "icici", "sbi", "axis", "kotak">>

SignatureWords ==
    << { <<"h", "d", "f", "c">> },
       { <<"i", "c", "i", "c", "i">> },
       { <<"s", "b", "i", " ", "c", "a", "r", "d">>, <<"s", "b", "i", " ", "c", "r", "e", "d", "i", "t">> },
       { <<"a", "x", "i", "s">> },
       { <<"k", "o", "t", "a", "k">> } >>

(* the text of the first two pages cannot be read *)
FirstTwoUnobtainable(d) ==
    ~d.open_ok \/ \E i \in 1..Len(d.pages) : i <= 2 /\ d.pages[i] = Raises

(* the lower-cased text of the first two pages, a page without text counting as empty *)
FirstTwoText(d) ==
    Lower(Concat([i \in 1..(IF Len(d.pages) < 2 THEN Len(d.pages) ELSE 2) |->
                    IF d.pages[i] \in {None, Raises} THEN <<>> ELSE d.pages[i]]))

SignatureOccurs(k, d) == \E w \in SignatureWords[k] : Contains(w, FirstTwoText(d))

(* a readable document whose first two pages hold no signature keyword *)
NoSignature(d) ==
    ~FirstTwoUnobtainable(d) /\ \A k \in 1..Len(SignatureWords) : ~SignatureOccurs(k, d)

LastStep == IF Len(ran) = 0 THEN "" ELSE ran[Len(ran)]

(* C1: every result process_single_statement returns carries a `data`      *)
(* record, on every path                                                   *)
C1_DataAlwaysPresent == pc = "returned" => "data" \in DOMAIN result

(* C2: whatever the outcomes of the stages, process_single_statement ends  *)
(* by returning a result (every control point is one of the function's,    *)
(* and from each one but the return the next step can be taken: the calls  *)
(* of detect_bank and parse return on every path, and after each of them   *)
(* some branch applies); a result has an `error` string exactly when its   *)
(* success is false                                                        *)
C2_AlwaysReturnsResult ==
    /\ pc \in {"start", "detected", "constructed", "parsed", "returned"}
    /\ pc # "returned" =>
          \/ pc \in {"start", "constructed"}
          \/ ENABLED (ReturnUnknown \/ GetParser \/ SaveAndReturn)
    /\ pc \in {"parsed", "returned"} =>
          /\ "success" \in DOMAIN result
          /\ result.success \in BOOLEAN
          /\ ("error" \in DOMAIN result) <=> ~result.success
          /\ ~result.success => result.error \in STRING

(* a document whose issuer is identified and whose text extraction fails   *)
(* has been turned into a returned failure                                 *)
C2_Witness ==
    /\ pc = "returned"
    /\ bank # "unknown"
    /\ ~TextObtained(doc)
    /\ ~result.success
    /\ "error" \in DOMAIN result

(* C3: a document without any signature keyword in its first two pages     *)
(* yields success=false, the detection error, the issuer tag "unknown" in  *)
(* the result, and neither a parser nor any extraction step                *)
C3_UnknownIssuerResult ==
    pc = "returned" /\ NoSignature(doc) =>
        /\ ~result.success
        /\ result.error = "Could not detect bank from statement"
        /\ \E k \in DOMAIN result : k \in {"issuer", "bank"} /\ result[k] = "unknown"
        /\ parser = Idle
        /\ ran = <<"detect_bank">>

(* C4 as stated: success=false only for an unrecognized issuer or for      *)
(* text that could not be obtained                                         *)
C4_OnlyIssuerOrTextFatal ==
    pc = "returned" /\ ~result.success => bank = "unknown" \/ ~TextObtained(doc)

(* C4: success=false only for an unrecognized issuer, for text that could  *)
(* not be obtained, or for an error of the CSV write after parsing; a      *)
(* missing field or a failed transaction recovery never makes the parse    *)
(* of an identified document with text fail                                *)
C4_FatalCauses ==
    /\ pc = "returned" /\ ~result.success =>
          \/ bank = "unknown"
          \/ ~TextObtained(doc)
          \/ LastStep = "to_csv"
    /\ pc = "parsed" /\ TextObtained(doc) => result.success

(* an identified document with text whose CSV write failed *)
C4_Witness ==
    /\ pc = "returned"
    /\ ~result.success
    /\ bank # "unknown"
    /\ TextObtained(doc)
    /\ LastStep = "to_csv"

(* C5: an error inside a recovery tier is swallowed: the parse of a        *)
(* document with text succeeds with a transaction list, which is empty     *)
(* when recovery yields nothing, and the scalar fields are the values      *)
(* extracted from the text                                                 *)
C5_RecoveryErrorsSwallowed ==
    pc = "parsed" /\ TextObtained(doc) =>
        /\ result.success
        /\ DOMAIN result.data.transactions = 1..Len(result.data.transactions)
        /\ doc.tabula.raises /\ (bank # "hdfc" \/ doc.plumber[1].raises)
              => result.data.transactions = <<>>
        /\ result.data.card_last_4_digits = extract_card_number(bank, FullText(doc))
        /\ <<result.data.billing_cycle_start, result.data.billing_cycle_end>>
              = extract_billing_cycle(bank, FullText(doc))
        /\ result.data.payment_due_date = extract_due_date(bank, FullText(doc))
        /\ result.data.total_amount_due = extract_amount_due(bank, FullText(doc))

(* both tiers failed and the record keeps its scalar fields *)
C5_Witness ==
    /\ pc = "parsed"
    /\ bank = "hdfc"
    /\ doc.tabula.raises /\ doc.plumber[1].raises
    /\ result.success
    /\ result.data.transactions = <<>>
    /\ result.data.card_last_4_digits # None
    /\ result.data.payment_due_date # None

(***************************************************************************)
(* Properties of detect_bank, checked under SpecDetect                     *)
(***************************************************************************)
(* C6: detect_bank returns the tag of the first signature, in the order    *)
(* hdfc, icici, sbi, axis, kotak, that occurs in the lower-cased text of   *)
(* the first two pages, wherever each occurs; without such a signature, or *)
(* when that text cannot be read, it returns "unknown"; it always returns  *)
C6_DetectBankPriority ==
    pc = "detected" =>
        /\ bank \in Range(IssuerTags) \cup {"unknown"}
        /\ \A k \in 1..Len(IssuerTags) :
              bank = IssuerTags[k] <=>
                  /\ ~FirstTwoUnobtainable(doc)
                  /\ SignatureOccurs(k, doc)
                  /\ \A j \in 1..(k - 1) : ~SignatureOccurs(j, doc)

(* two signatures occur and the one detect_bank returns starts later in    *)
(* the text than the other                                                 *)
C6_Witness ==
    /\ pc = "detected"
    /\ bank = "hdfc"
    /\ \E p, q \in 1..Len(FirstTwoText(doc)) :
          /\ p < q
          /\ OccursAt(<<"i", "c", "i", "c", "i">>, FirstTwoText(doc), p)
          /\ OccursAt(<<"h", "d", "f", "c">>, FirstTwoText(doc), q)

(***************************************************************************)
(* Properties of the dates of a parsed record, checked under Spec          *)
(***************************************************************************)
(* v is a date written YYYY-MM-DD *)
IsCanonicalDate(v) ==
    /\ Len(v) = 10
    /\ v[5] = "-" /\ v[8] = "-"
    /\ \A i \in {1, 2, 3, 4, 6, 7, 9, 10} : IsDigit(v[i])
    /\ Num(SubSeq(v, 6, 7)) \in 1..12
    /\ Num(SubSeq(v, 9, 10)) \in 1..DaysInMonth(Num(SubSeq(v, 1, 4)), Num(SubSeq(v, 6, 7)))

(* the formats of date_formats that parse the token *)
AcceptingFormats(tok) ==
    { k \in 1..Len(date_formats) : Len(Strptime(Strip(tok), date_formats[k])) > 0 }

ScalarDates(data) ==
    { data.billing_cycle_start, data.billing_cycle_end, data.payment_due_date }

TransactionDates(data) == { data.transactions[i].Date : i \in 1..Len(data.transactions) }

(* C7 as stated: every date of a record parse() returns is absent or a     *)
(* canonical YYYY-MM-DD date                                               *)
C7_DatesCanonicalOrAbsent ==
    pc = "parsed" /\ result.success =>
        \A v \in ScalarDates(result.data) \cup TransactionDates(result.data) :
            v = None \/ IsCanonicalDate(v)

(* C7: every date of a record parse() returns is absent, a canonical       *)
(* YYYY-MM-DD date, or a captured token that no date format accepts,       *)
(* left as it stands in the text                                           *)
C7_DatesCanonicalAbsentOrRaw ==
    pc = "parsed" /\ result.success =>
        /\ \A v \in ScalarDates(result.data) :
              \/ v = None
              \/ IsCanonicalDate(v)
              \/ AcceptingFormats(v) = {} /\ Contains(v, FullText(doc))
        /\ \A v \in TransactionDates(result.data) :
              IsCanonicalDate(v) \/ AcceptingFormats(v) = {}

(* a record whose due date is a token no format accepts and whose billing  *)
(* cycle start is canonical                                                *)
C7_Witness ==
    /\ pc = "parsed"
    /\ result.success
    /\ result.data.payment_due_date # None
    /\ ~IsCanonicalDate(result.data.payment_due_date)
    /\ IsCanonicalDate(result.data.billing_cycle_start)

(***************************************************************************)
(* Properties of standardize_date, checked under SpecDate                  *)
(***************************************************************************)
(* the date <<year, month, day>> written YYYY-MM-DD *)
IsoDate(dt) == ZeroPad(dt[1], 4) \o <<"-">> \o ZeroPad(dt[2], 2) \o <<"-">> \o ZeroPad(dt[3], 2)

(* C8: standardize_date returns the date parsed by the first format of the *)
(* declared order that accepts the token, written YYYY-MM-DD; a canonical  *)
(* date is returned unchanged, so standardizing a standardized date        *)
(* changes nothing                                                         *)
C8_FirstFormatAndIdempotence ==
    /\ pc = "standardized" /\ AcceptingFormats(arg) # {} =>
          LET k == CHOOSE i \in AcceptingFormats(arg) : \A j \in AcceptingFormats(arg) : i <= j
          IN  /\ ret = IsoDate(Strptime(Strip(arg), date_formats[k]))
              /\ IsCanonicalDate(ret)
    /\ pc \in {"standardized", "restandardized"} /\ IsCanonicalDate(arg) => ret = arg

(* a token in another format was standardized and the result standardized again *)
C8_Witness ==
    /\ pc = "restandardized"
    /\ IsCanonicalDate(arg)
    /\ ret = arg

(***************************************************************************)
(* Properties of parse_indian_amount, checked under SpecAmount             *)
(***************************************************************************)
(* the token without currency symbols, grouping commas and whitespace *)
AmountCleaned(tok) == RemoveChars(tok, {"₹", "$", ","} \cup Whitespace)

FieldPatterns(field, issuer) ==
    CASE field = "card_number" -> card_number_patterns(issuer)
      [] field = "billing_cycle" -> billing_cycle_patterns(issuer)
      [] field = "due_date" -> due_date_patterns(issuer)
      [] field = "amount_due" -> amount_due_patterns(issuer)

(* the indices of the patterns that match somewhere in the text *)
MatchingPatterns(patterns, text) ==
    { k \in 1..Len(patterns) : Len(re_search(patterns[k], text)) > 0 }

(* what group g of pattern k captures *)
Captured(patterns, text, k, g) == group(patterns[k], re_search(patterns[k], text), text, g)

(* C10: each field extractor returns the value captured by the lowest-index *)
(* pattern of its list that matches anywhere in the text, wherever a later  *)
(* pattern matches; the field is absent when no pattern matches             *)
C10_FirstPatternWins ==
    pc \in {"card_number", "billing_cycle", "due_date", "amount_due"} =>
        LET patterns == FieldPatterns(pc, arg[1])
            text == arg[2]
            matching == MatchingPatterns(patterns, text)
        IN  IF matching = {}
            THEN ret = IF pc = "billing_cycle" THEN <<None, None>> ELSE None
            ELSE LET k == CHOOSE i \in matching : \A j \in matching : i <= j
                 IN  CASE pc = "card_number" -> ret = Captured(patterns, text, k, 1)
                       [] pc = "billing_cycle" ->
                            ret = << standardize_date(Captured(patterns, text, k, 1)),
                                     standardize_date(Captured(patterns, text, k, 2)) >>
                       [] pc = "due_date" -> ret = standardize_date(Captured(patterns, text, k, 1))
                       [] pc = "amount_due" -> ret = parse_indian_amount(Captured(patterns, text, k, 1))

(* a later pattern of the due-date list matches earlier in the text than   *)
(* the first pattern that matches, and the first pattern's date is returned *)
C10_Witness ==
    /\ pc = "due_date"
    /\ LET patterns == FieldPatterns(pc, arg[1])
           matching == MatchingPatterns(patterns, arg[2])
       IN  /\ matching # {}
           /\ \E k, j \in matching :
                 /\ \A i \in matching : k <= i
                 /\ k < j
                 /\ re_search(patterns[j], arg[2])[1] < re_search(patterns[k], arg[2])[1]
                 /\ ret = standardize_date(Captured(patterns, arg[2], k, 1))
                 /\ ret # standardize_date(Captured(patterns, arg[2], j, 1))


(***************************************************************************)
(* Properties of the transaction recoverers, checked under Spec            *)
(***************************************************************************)
(* the rows the recoverer of the parsed document read: the rows of the     *)
(* data frames when read_pdf returned, else the rows of the tables of the  *)
(* pages extract_tables returned for                                       *)
SourceRows(d) ==
    IF ~d.tabula.raises THEN Concat(d.tabula.dfs)
    ELSE IF ~d.open_ok THEN <<>>
    ELSE Concat(Concat([i \in 1..Len(d.plumber) |-> d.plumber[i].tables]))

(* the text of the cells of a row that hold a text *)
RowText(row) ==
    Join(SelectSeq(row, LAMBDA cell : cell \notin {None, NA}), <<" ">>)

HasDateToken(text) == Len(re_search(<<C(DateRe)>>, text)) > 0

HasAmountToken(text) == Len(re_search(<<C(RowAmountRe)>>, text)) > 0

Transactions == result.data.transactions

(* C11: every record a recoverer emits, in either tier, has a date and an  *)
(* amount, and no more records are emitted than the source has rows with   *)
(* both a date-like and an amount-like token                               *)
C11_RecordsHaveDateAndAmount ==
    (pc = "parsed" /\ result.success) =>
        /\ \A i \in 1..Len(Transactions) :
              Transactions[i].Date # None /\ Transactions[i].Amount # None
        /\ Len(Transactions) <=
              Len(SelectSeq(SourceRows(doc),
                            LAMBDA row : HasDateToken(RowText(row)) /\ HasAmountToken(RowText(row))))


(***************************************************************************)
(* Properties of process_all_statements, checked under FairSpecBatch       *)
(***************************************************************************)
(* the control points inside process_single_statement *)
InsideStatement == pc \in {"start", "detected", "constructed", "parsed", "returned"}

(* the files process_single_statement was entered with, in that order *)
ProcessedPaths ==
    SelectSeq(ran, LAMBDA step : step \in { PdfPath(i) : i \in 1..Len(arg) })

SummaryBuilt == pc \in {"reported", "report_raised"}

BatchOver == pc \in {"no_files", "reported", "report_raised"}

(* the files are entered once each, in the order of the list; the results  *)
(* are theirs, in that order; the summary counts all of them               *)
BatchInvariant ==
    /\ Len(ret.results) <= Len(arg)
    /\ ProcessedPaths =
          [ i \in 1..(Len(ret.results) + IF InsideStatement THEN 1 ELSE 0) |-> arg[i].path ]
    /\ \A i \in 1..Len(ret.results) : ret.results[i].file = arg[i].path
    /\ SummaryBuilt =>
          /\ ret.summary.total_processed = Len(arg)
          /\ ret.summary.successful + ret.summary.failed = Len(arg)
          /\ Len(ret.summary.details) = Len(arg)
          /\ \A i \in 1..Len(arg) : ret.summary.details[i].file = arg[i].path
          /\ ret.summary.details = ret.results

(* C12: in a batch run over the files d1..dn every file is processed once, *)
(* in sequence; after a failed result for file k the run goes on to file   *)
(* k+1; the run ends, and the summary built after the loop has             *)
(* total_processed = n, successful + failed = n and the n results in       *)
(* processing order                                                        *)
C12_BatchProcessesEveryDocument ==
    /\ []BatchInvariant
    /\ \A k \in 1..MaxFiles :
          (Len(ret.results) = k /\ k < Len(arg) /\ ~ret.results[k].success)
             ~> (Len(ret.results) = k + 1)
    /\ <>BatchOver
    /\ (Len(arg) > 0) ~> SummaryBuilt

(* a batch of two files has ended: the first result is a failure of a      *)
(* statement whose issuer was detected, the second a success               *)
C12_Witness ==
    /\ pc = "reported"
    /\ Len(arg) >= 2
    /\ ~ret.results[1].success /\ "bank" \in DOMAIN ret.results[1]
    /\ ret.results[2].success
    /\ ret.summary.successful >= 1 /\ ret.summary.failed >= 1


(***************************************************************************)
(* Properties of the two tiers of the recoverers, checked under Spec       *)
(***************************************************************************)
(* the fallback tier of the recoverer ran during the parse *)
FallbackRan == \E i \in 1..Len(ran) : ran[i] = "fallback"

(* the structured tier of the recoverer ran during the parse *)
StructuredRan == \E i \in 1..Len(ran) : ran[i] = "structured"

(* C13: for every issuer, once the recoverer has run, the fallback tier    *)
(* ran if and only if the structured extraction raised: never after one    *)
(* that completed, always after one that raised                            *)
C13_FallbackIffStructuredRaised ==
    (pc = "parsed" /\ StructuredRan) => (FallbackRan <=> doc.tabula.raises)


(* the rows of the frames with both a date-like token and a two-decimal    *)
(* amount token in the text of their cells, in frame order then row order  *)
QualifyingRows(dfs) ==
    SelectSeq(Concat(dfs),
              LAMBDA row : HasDateToken(RowStr(row)) /\ HasAmountToken(RowStr(row)))

StructuredCompleted == pc = "parsed" /\ StructuredRan /\ ~doc.tabula.raises

(* C14: for every issuer, after a structured extraction that completed,    *)
(* the transactions are one record per qualifying row of every frame, in   *)
(* frame order then row order, the description being the row's text: no    *)
(* qualifying row is skipped                                               *)
C14_EveryQualifyingRowRecorded ==
    StructuredCompleted =>
        LET rows == QualifyingRows(doc.tabula.dfs)
        IN  /\ Len(Transactions) = Len(rows)
            /\ \A i \in 1..Len(rows) : Transactions[i].Description = RowStr(rows[i])


(***************************************************************************)
(* Properties of a failed parse, checked under Spec                        *)
(***************************************************************************)
ScalarFields ==
    {"card_last_4_digits", "billing_cycle_start", "billing_cycle_end",
     "payment_due_date", "total_amount_due"}

(* the steps of parse that store a field of extracted_data *)
FieldSteps ==
    {"extract_card_number", "extract_billing_cycle", "extract_due_date",
     "extract_amount_due", "extract_transactions"}

(* C15: when parse returns success=false its data has every scalar field   *)
(* absent and no transactions; the failure is one of obtaining the text,   *)
(* and it happened before any field was stored                             *)
C15_FailedParseCarriesNoData ==
    (pc = "parsed" /\ ~result.success) =>
        /\ \A f \in ScalarFields : result.data[f] = None
        /\ result.data.transactions = <<>>
        /\ ~TextObtained(doc)
        /\ \A i \in 1..Len(ran) : ran[i] \notin FieldSteps

(* parse failed on the second page of a statement whose first page holds   *)
(* the fields and whose issuer was detected                                *)
C15_Witness ==
    /\ pc = "parsed" /\ ~result.success
    /\ bank = "hdfc"
    /\ Len(doc.pages) = 2
    /\ doc.pages[1] \notin {None, Raises}
    /\ extract_card_number("hdfc", doc.pages[1]) # None
    /\ doc.pages[2] \in {None, Raises}

====
